---- MODULE Spec2Model ----
(***************************************************************************)
(* The checksum trailer of cppimport (src/cppimport/checksum.py): the      *)
(* fingerprint of an ordered list of files and of the build environment,   *)
(* the trailer appended to the compiled extension, and the validation of   *)
(* an extension against the files its trailer records.                     *)
(*                                                                         *)
(* A byte is a number in 0..255, binary data a sequence of bytes, a text   *)
(* (python str) a sequence of code points.  A python exception is the      *)
(* name of its class in the field exc of a result, "" when none is raised. *)
(***************************************************************************)
EXTENDS Integers, Sequences, FiniteSets, TLC

\* ------------------------------------------------------------------------
\* Python values, as far as json.loads can produce them.  Every value is a
\* record of its type t and a sequence v.

PyNone == [t |-> "None", v |-> <<>>]
PyStr(s) == [t |-> "str", v |-> s]
PyList(xs) == [t |-> "list", v |-> xs]
PyInt(numeral) == [t |-> "int", v |-> numeral]
PyFloat(numeral) == [t |-> "float", v |-> numeral]
PyBool(b) == [t |-> "bool", v |-> IF b THEN <<1>> ELSE <<0>>]
PyDict(items) == [t |-> "dict", v |-> items]

Min(S) == CHOOSE m \in S : \A n \in S : m <= n

\* the sequences seqs[lo], .., seqs[hi], one after the other, sep between them
RECURSIVE JoinRange(_, _, _, _)
JoinRange(seqs, sep, lo, hi) ==
    IF lo > hi THEN <<>>
    ELSE IF lo = hi THEN seqs[lo]
    ELSE LET mid == (lo + hi) \div 2 IN
         JoinRange(seqs, sep, lo, mid) \o sep \o JoinRange(seqs, sep, mid + 1, hi)

Join(seqs, sep) == JoinRange(seqs, sep, 1, Len(seqs))

Flatten(seqs) == Join(seqs, <<>>)

HexDigits == <<48, 49, 50, 51, 52, 53, 54, 55, 56, 57, 97, 98, 99, 100, 101, 102>>

\* ------------------------------------------------------------------------
\* json.dumps(obj).encode("ascii") for lists and strings: ensure_ascii
\* escaping of every string, ", " between the items of a list.

\* '\\u{0:04x}'.format(n)
EscapeUnit(n) ==
    <<92, 117, HexDigits[((n \div 4096) % 16) + 1],
      HexDigits[((n \div 256) % 16) + 1], HexDigits[((n \div 16) % 16) + 1],
      HexDigits[(n % 16) + 1]>>

\* a writer that escapes nothing
RawChar(c) == <<c>>

EscapeChar(c) ==
    CASE c = 34 -> <<92, 34>>
      [] c = 92 -> <<92, 92>>
      [] c = 10 -> <<92, 110>>
      [] c = 13 -> <<92, 114>>
      [] c = 9 -> <<92, 116>>
      [] c = 8 -> <<92, 98>>
      [] c = 12 -> <<92, 102>>
      [] c >= 32 /\ c <= 126 -> <<c>>
      [] c >= 65536 ->
            EscapeUnit(55296 + (((c - 65536) \div 1024) % 1024))
            \o EscapeUnit(56320 + ((c - 65536) % 1024))
      [] OTHER -> EscapeUnit(c)

encode_basestring_ascii(s) ==
    <<34>> \o Flatten([i \in 1..Len(s) |-> EscapeChar(s[i])]) \o <<34>>

RECURSIVE json_dumps(_)
json_dumps(obj) ==
    IF obj.t = "str" THEN encode_basestring_ascii(obj.v)
    ELSE <<91>> \o Join([i \in 1..Len(obj.v) |-> json_dumps(obj.v[i])], <<44, 32>>)
         \o <<93>>

\* ------------------------------------------------------------------------
\* json.loads(bytes): detect_encoding, bytes.decode(.., "surrogatepass"),
\* then the scanner.  A failure of any of them is a ValueError.

detect_encoding(b) ==
    LET n == Len(b)
        starts(p) == n >= Len(p) /\ SubSeq(b, 1, Len(p)) = p
    IN  IF starts(<<0, 0, 254, 255>>) \/ starts(<<255, 254, 0, 0>>) THEN "utf-32"
        ELSE IF starts(<<254, 255>>) \/ starts(<<255, 254>>) THEN "utf-16"
        ELSE IF starts(<<239, 187, 191>>) THEN "utf-8-sig"
        ELSE IF n >= 4 /\ b[1] = 0
             THEN (IF b[2] # 0 THEN "utf-16-be" ELSE "utf-32-be")
        ELSE IF n >= 4 /\ b[2] = 0
             THEN (IF b[3] # 0 \/ b[4] # 0 THEN "utf-16-le" ELSE "utf-32-le")
        ELSE IF n = 2 /\ b[1] = 0 THEN "utf-16-be"
        ELSE IF n = 2 /\ b[2] = 0 THEN "utf-16-le"
        ELSE "utf-8"

NoText == [ok |-> FALSE, text |-> <<>>]

IsCont(c) == c >= 128 /\ c <= 191

\* utf-8 with surrogatepass: the code points of b from index i on
RECURSIVE decode_utf8(_, _, _)
decode_utf8(b, i, acc) ==
    IF \A k \in i..Len(b) : b[k] < 128
    THEN [ok |-> TRUE, text |-> acc \o SubSeq(b, i, Len(b))]
    ELSE IF b[i] < 128
    THEN LET k == Min({n \in i..Len(b) : b[n] >= 128}) IN
         decode_utf8(b, k, acc \o SubSeq(b, i, k - 1))
    ELSE LET c == b[i]
             left == Len(b) - i
         IN  IF c >= 194 /\ c <= 223 /\ left >= 1 /\ IsCont(b[i + 1])
                  THEN decode_utf8(b, i + 2,
                           Append(acc, (c - 192) * 64 + (b[i + 1] - 128)))
             ELSE IF c >= 224 /\ c <= 239 /\ left >= 2 /\ IsCont(b[i + 1])
                     /\ IsCont(b[i + 2]) /\ (c # 224 \/ b[i + 1] >= 160)
                  THEN decode_utf8(b, i + 3,
                           Append(acc, (c - 224) * 4096 + (b[i + 1] - 128) * 64
                                       + (b[i + 2] - 128)))
             ELSE IF c >= 240 /\ c <= 244 /\ left >= 3 /\ IsCont(b[i + 1])
                     /\ IsCont(b[i + 2]) /\ IsCont(b[i + 3])
                     /\ (c # 240 \/ b[i + 1] >= 144)
                     /\ (c # 244 \/ b[i + 1] <= 143)
                  THEN decode_utf8(b, i + 4,
                           Append(acc, (c - 240) * 262144 + (b[i + 1] - 128) * 4096
                                       + (b[i + 2] - 128) * 64 + (b[i + 3] - 128)))
             ELSE NoText

\* utf-16 with surrogatepass: two bytes a code unit, a surrogate pair one
\* code point, a lone surrogate itself
RECURSIVE decode_utf16(_, _, _, _)
decode_utf16(b, i, le, acc) ==
    IF i > Len(b) THEN [ok |-> TRUE, text |-> acc]
    ELSE IF i = Len(b) THEN NoText
    ELSE LET unit(k) == IF le THEN b[k] + 256 * b[k + 1] ELSE 256 * b[k] + b[k + 1]
             u == unit(i)
         IN  IF u >= 55296 /\ u <= 56319 /\ i + 3 <= Len(b)
                /\ unit(i + 2) >= 56320 /\ unit(i + 2) <= 57343
             THEN decode_utf16(b, i + 4, le,
                      Append(acc, 65536 + (u - 55296) * 1024 + (unit(i + 2) - 56320)))
             ELSE decode_utf16(b, i + 2, le, Append(acc, u))

RECURSIVE decode_utf32(_, _, _, _)
decode_utf32(b, i, le, acc) ==
    IF i > Len(b) THEN [ok |-> TRUE, text |-> acc]
    ELSE IF i + 3 > Len(b) THEN NoText
    ELSE LET q == IF le THEN <<b[i + 3], b[i + 2], b[i + 1], b[i]>>
                  ELSE <<b[i], b[i + 1], b[i + 2], b[i + 3]>>
         IN  IF q[1] # 0 \/ q[2] > 16 THEN NoText
             ELSE decode_utf32(b, i + 4, le,
                      Append(acc, q[2] * 65536 + q[3] * 256 + q[4]))

bytes_decode(b, encoding) ==
    CASE encoding = "utf-8" -> decode_utf8(b, 1, <<>>)
      [] encoding = "utf-8-sig" -> decode_utf8(b, 4, <<>>)
      [] encoding = "utf-16-le" -> decode_utf16(b, 1, TRUE, <<>>)
      [] encoding = "utf-16-be" -> decode_utf16(b, 1, FALSE, <<>>)
      [] encoding = "utf-16" -> decode_utf16(b, 3, b[1] = 255, <<>>)
      [] encoding = "utf-32-le" -> decode_utf32(b, 1, TRUE, <<>>)
      [] encoding = "utf-32-be" -> decode_utf32(b, 1, FALSE, <<>>)
      [] encoding = "utf-32" -> decode_utf32(b, 5, b[1] = 255, <<>>)

NoValue == [ok |-> FALSE, val |-> PyNone, end |-> 0]

RECURSIVE skip_ws(_, _)
skip_ws(s, i) ==
    IF i <= Len(s) /\ s[i] \in {32, 9, 10, 13} THEN skip_ws(s, i + 1) ELSE i

RECURSIVE digits_end(_, _)
digits_end(s, i) ==
    IF i <= Len(s) /\ s[i] >= 48 /\ s[i] <= 57 THEN digits_end(s, i + 1) ELSE i

HexVal(c) ==
    IF c >= 48 /\ c <= 57 THEN c - 48
    ELSE IF c >= 97 /\ c <= 102 THEN c - 87
    ELSE IF c >= 65 /\ c <= 70 THEN c - 55
    ELSE -1

IsHex4(s, i) ==
    i + 3 <= Len(s) /\ \A k \in 0..3 : HexVal(s[i + k]) >= 0

Hex4(s, i) ==
    HexVal(s[i]) * 4096 + HexVal(s[i + 1]) * 256 + HexVal(s[i + 2]) * 16
    + HexVal(s[i + 3])

starts_with(s, i, lit) ==
    i + Len(lit) - 1 <= Len(s) /\ SubSeq(s, i, i + Len(lit) - 1) = lit

\* the string literal whose opening quote is just before index i (strict)
RECURSIVE scanstring(_, _, _)
scanstring(s, i, acc) ==
    IF \A k \in i..Len(s) : s[k] \notin {34, 92} /\ s[k] >= 32 THEN NoValue
    ELSE IF s[i] = 34 THEN [ok |-> TRUE, val |-> PyStr(acc), end |-> i + 1]
    ELSE IF s[i] < 32 THEN NoValue
    ELSE IF s[i] # 92
    THEN LET k == Min({n \in i..Len(s) : s[n] \in {34, 92} \/ s[n] < 32}) IN
         scanstring(s, k, acc \o SubSeq(s, i, k - 1))
    ELSE IF i + 1 > Len(s) THEN NoValue
    ELSE LET e == s[i + 1] IN
         IF e = 117 THEN
             IF ~IsHex4(s, i + 2) THEN NoValue
             ELSE LET u == Hex4(s, i + 2) IN
                  IF u >= 55296 /\ u <= 56319 /\ starts_with(s, i + 6, <<92, 117>>)
                     /\ IsHex4(s, i + 8) /\ Hex4(s, i + 8) >= 56320
                     /\ Hex4(s, i + 8) <= 57343
                  THEN scanstring(s, i + 12,
                           Append(acc, 65536 + (u - 55296) * 1024
                                       + (Hex4(s, i + 8) - 56320)))
                  ELSE scanstring(s, i + 6, Append(acc, u))
         ELSE IF e \in {34, 92, 47} THEN scanstring(s, i + 2, Append(acc, e))
         ELSE IF e = 98 THEN scanstring(s, i + 2, Append(acc, 8))
         ELSE IF e = 102 THEN scanstring(s, i + 2, Append(acc, 12))
         ELSE IF e = 110 THEN scanstring(s, i + 2, Append(acc, 10))
         ELSE IF e = 114 THEN scanstring(s, i + 2, Append(acc, 13))
         ELSE IF e = 116 THEN scanstring(s, i + 2, Append(acc, 9))
         ELSE NoValue

\* -?(0|[1-9][0-9]*)(\.[0-9]+)?([eE][-+]?[0-9]+)?
match_number(s, i) ==
    LET j == IF i <= Len(s) /\ s[i] = 45 THEN i + 1 ELSE i IN
    IF j > Len(s) \/ s[j] < 48 \/ s[j] > 57 THEN NoValue
    ELSE LET k == IF s[j] = 48 THEN j + 1 ELSE digits_end(s, j)
             f == IF k + 1 <= Len(s) /\ s[k] = 46 /\ s[k + 1] >= 48 /\ s[k + 1] <= 57
                  THEN digits_end(s, k + 1) ELSE k
             d == IF f + 1 <= Len(s) /\ s[f] \in {101, 69} /\ s[f + 1] \in {43, 45}
                  THEN f + 2 ELSE f + 1
             x == IF f <= Len(s) /\ s[f] \in {101, 69} /\ d <= Len(s)
                     /\ s[d] >= 48 /\ s[d] <= 57
                  THEN digits_end(s, d) ELSE f
         IN  [ok |-> TRUE,
              val |-> IF x > k THEN PyFloat(SubSeq(s, i, x - 1))
                      ELSE IF s[j] = 48 THEN PyInt(<<48>>)
                      ELSE PyInt(SubSeq(s, i, k - 1)),
              end |-> x]

\* dict[key] = value: a repeated key keeps its place and takes the new value
dict_set(items, key, value) ==
    IF \E n \in 1..Len(items) : items[n][1] = key
    THEN [n \in 1..Len(items) |->
             IF items[n][1] = key THEN <<key, value>> ELSE items[n]]
    ELSE Append(items, <<key, value>>)

RECURSIVE scan_once(_, _), JSONArray(_, _, _), JSONObject(_, _, _)

\* the value that starts at index i
scan_once(s, i) ==
    IF i > Len(s) THEN NoValue
    ELSE IF s[i] = 34 THEN scanstring(s, i + 1, <<>>)
    ELSE IF s[i] = 123 THEN
        LET j == skip_ws(s, i + 1) IN
        IF j <= Len(s) /\ s[j] = 125
        THEN [ok |-> TRUE, val |-> PyDict(<<>>), end |-> j + 1]
        ELSE JSONObject(s, j, <<>>)
    ELSE IF s[i] = 91 THEN
        LET j == skip_ws(s, i + 1) IN
        IF j <= Len(s) /\ s[j] = 93
        THEN [ok |-> TRUE, val |-> PyList(<<>>), end |-> j + 1]
        ELSE JSONArray(s, j, <<>>)
    ELSE IF starts_with(s, i, <<110, 117, 108, 108>>)
        THEN [ok |-> TRUE, val |-> PyNone, end |-> i + 4]
    ELSE IF starts_with(s, i, <<116, 114, 117, 101>>)
        THEN [ok |-> TRUE, val |-> PyBool(TRUE), end |-> i + 4]
    ELSE IF starts_with(s, i, <<102, 97, 108, 115, 101>>)
        THEN [ok |-> TRUE, val |-> PyBool(FALSE), end |-> i + 5]
    ELSE IF starts_with(s, i, <<78, 97, 78>>)
        THEN [ok |-> TRUE, val |-> PyFloat(<<78, 97, 78>>), end |-> i + 3]
    ELSE IF starts_with(s, i, <<73, 110, 102, 105, 110, 105, 116, 121>>)
        THEN [ok |-> TRUE, val |-> PyFloat(SubSeq(s, i, i + 7)), end |-> i + 8]
    ELSE IF starts_with(s, i, <<45, 73, 110, 102, 105, 110, 105, 116, 121>>)
        THEN [ok |-> TRUE, val |-> PyFloat(SubSeq(s, i, i + 8)), end |-> i + 9]
    ELSE match_number(s, i)

\* the rest of an array whose next value starts at index i
JSONArray(s, i, acc) ==
    LET r == scan_once(s, i) IN
    IF ~r.ok THEN NoValue
    ELSE LET j == skip_ws(s, r.end) IN
         IF j > Len(s) THEN NoValue
         ELSE IF s[j] = 93
              THEN [ok |-> TRUE, val |-> PyList(Append(acc, r.val)), end |-> j + 1]
         ELSE IF s[j] # 44 THEN NoValue
         ELSE JSONArray(s, skip_ws(s, j + 1), Append(acc, r.val))

\* the rest of an object whose next key starts at index i
JSONObject(s, i, acc) ==
    IF i > Len(s) \/ s[i] # 34 THEN NoValue
    ELSE LET k == scanstring(s, i + 1, <<>>) IN
         IF ~k.ok THEN NoValue
         ELSE LET c == skip_ws(s, k.end) IN
              IF c > Len(s) \/ s[c] # 58 THEN NoValue
              ELSE LET r == scan_once(s, skip_ws(s, c + 1)) IN
                   IF ~r.ok THEN NoValue
                   ELSE LET j == skip_ws(s, r.end)
                            items == dict_set(acc, k.val, r.val)
                        IN  IF j > Len(s) THEN NoValue
                            ELSE IF s[j] = 125
                                 THEN [ok |-> TRUE, val |-> PyDict(items), end |-> j + 1]
                            ELSE IF s[j] # 44 THEN NoValue
                            ELSE JSONObject(s, skip_ws(s, j + 1), items)

\* the value r scanned from the text s, if only white space follows it
whole_value(r, s) ==
    IF r.ok /\ skip_ws(s, r.end) = Len(s) + 1
    THEN [exc |-> "", val |-> r.val]
    ELSE [exc |-> "ValueError", val |-> PyNone]

\* JSONDecoder.decode of the decoded text d
json_decode(d) ==
    IF ~d.ok THEN [exc |-> "ValueError", val |-> PyNone]
    ELSE whole_value(scan_once(d.text, skip_ws(d.text, 1)), d.text)

\* json.loads of bytes: [exc |-> "" or "ValueError", val |-> the value]
json_loads(b) == json_decode(bytes_decode(b, detect_encoding(b)))

\* ------------------------------------------------------------------------
\* The state: the file system, the build environment, the module being
\* imported, and what the last call returned.

VARIABLES
    fs,             \* the files: path |-> [st, data], st "ok", "missing" or "unreadable"
    environ,        \* what the environment key is computed from, but cfgbase
    module_data,    \* module_data of the module: the result of dependency discovery
    large_offsets,  \* whether the file system takes any offset an off_t can hold
    last,           \* the last call: [op, exc, ret]
    stamp,          \* the files and the key when checksum_save last stamped ext_path
    saved,          \* the pairs written to ext_path since it was built, in order
    intact,         \* no byte of ext_path was changed or removed since
    procs,          \* the processes that build and stamp ext_path: [pc, deps, cur]
    refused,        \* is_checksum_valid has returned False since the last stamp
    prev,           \* what last was when is_checksum_valid was last called
    tree,           \* the paths under get_ipython_cache_dir()/cppimport that exist
    db,             \* shell.db["cppimport_cache"]: <<>> without the key, or <<cdir>>
    magics          \* the sessions of the IPython magic, each a Magic record

vars ==
    <<fs, environ, module_data, large_offsets, last, stamp, saved, intact, procs,
      refused, prev, tree, db, magics>>

_TAG == <<99, 112, 112, 105, 109, 112, 111, 114, 116>>

\* struct.Struct("q9s"): a native (little-endian, 8 byte) long long and 9 bytes
_FMT_size == 8 + Len(_TAG)

\* a footer with the length most significant byte first
_FMT_pack_be(n, tag) ==
    <<0, 0, 0, 0, 0, (n \div 65536) % 256, (n \div 256) % 256, n % 256>> \o tag

_FMT_pack(n, tag) ==
    <<n % 256, (n \div 256) % 256, (n \div 65536) % 256, 0, 0, 0, 0, 0>> \o tag

_FMT_unpack(b) == [json_len |-> SubSeq(b, 1, 8), tag |-> SubSeq(b, 9, 17)]

\* struct.pack(">q", n)
pack_be_q(n) ==
    <<0, 0, 0, 0, 0, (n \div 65536) % 256, (n \div 256) % 256, n % 256>>

\* A signed 64 bit integer is kept as its 8 bytes q, least significant first.
Low3(q) == q[1] + 256 * q[2] + 65536 * q[3]
IsNegative(q) == q[8] >= 128
IsMinusOne(q) == \A k \in 1..8 : q[k] = 255
\* 0 <= q < 2^24
IsSmall(q) == \A k \in 4..8 : q[k] = 0
\* q >= 2^63 - 16: -(17 + q) is below the least off_t
OffsetUnderflows(q) == q[8] = 127 /\ q[1] >= 240 /\ \A k \in 2..7 : q[k] = 255
\* -65536 <= q < 0: size - 17 - q is an offset of any file system
IsNearZero(q) == \A k \in 3..8 : q[k] = 255
\* q <= -2^63 + size - 17: size - 17 - q is above the greatest off_t
OffsetOverflows(q, size) ==
    q[8] = 128 /\ (\A k \in 4..7 : q[k] = 0) /\ Low3(q) <= size - 17

OSErrors == {"OSError", "FileNotFoundError", "PermissionError"}

\* open(path, "rb") and read(): [exc, data]
open_rb(path) ==
    IF path.t \in {"int", "bool"} THEN [exc |-> "OSError", data |-> <<>>]
    ELSE IF path.t # "str" THEN [exc |-> "TypeError", data |-> <<>>]
    ELSE IF \E i \in 1..Len(path.v) :
                \/ path.v[i] = 0
                \/ path.v[i] >= 55296 /\ path.v[i] <= 57343
                   /\ ~(path.v[i] >= 56448 /\ path.v[i] <= 56575)
         THEN [exc |-> "ValueError", data |-> <<>>]
    ELSE IF path.v \notin DOMAIN fs \/ fs[path.v].st = "missing"
         THEN [exc |-> "FileNotFoundError", data |-> <<>>]
    ELSE IF fs[path.v].st = "unreadable"
         THEN [exc |-> "PermissionError", data |-> <<>>]
    ELSE [exc |-> "", data |-> fs[path.v].data]

Loaded(exc, deps, old_checksum) ==
    [exc |-> exc, deps |-> deps, old_checksum |-> old_checksum]

NotFound == Loaded("", PyNone, PyNone)

\* deps, old_checksum = value
unpack_pair(value) ==
    IF value.t \notin {"list", "str", "dict"} THEN Loaded("TypeError", PyNone, PyNone)
    ELSE IF Len(value.v) # 2 THEN Loaded("ValueError", PyNone, PyNone)
    ELSE IF value.t = "list" THEN Loaded("", value.v[1], value.v[2])
    ELSE IF value.t = "str"
         THEN Loaded("", PyStr(<<value.v[1]>>), PyStr(<<value.v[2]>>))
    ELSE Loaded("", value.v[1][1], value.v[2][1])

\* the bytes f.read(json_len) returns after f.seek(-(_FMT.size + json_len), 2):
\* [exc, data]
read_payload(data, json_len) ==
    LET size == Len(data) IN
    IF OffsetUnderflows(json_len) THEN [exc |-> "ValueError", data |-> <<>>]
    ELSE IF ~IsNegative(json_len) THEN
        IF IsSmall(json_len) /\ Low3(json_len) + _FMT_size <= size
        THEN [exc |-> "",
              data |-> SubSeq(data, size - _FMT_size - Low3(json_len) + 1,
                              size - _FMT_size)]
        ELSE [exc |-> "OSError", data |-> <<>>]
    ELSE IF IsMinusOne(json_len)
        THEN [exc |-> "", data |-> SubSeq(data, size - _FMT_size + 2, size)]
    ELSE IF OffsetOverflows(json_len, size) THEN [exc |-> "OSError", data |-> <<>>]
    ELSE IF IsNearZero(json_len) \/ large_offsets
        THEN [exc |-> "ValueError", data |-> <<>>]
    ELSE [exc |-> "OSError", data |-> <<>>]

\* deps, old_checksum = json.loads(json_s), a ValueError caught
load_pair(value) ==
    IF value.exc # "" THEN NotFound
    ELSE IF unpack_pair(value.val).exc = "ValueError" THEN NotFound
    ELSE unpack_pair(value.val)

\* a reader whose first try catches nothing
load_payload_uncaught(json_s) ==
    IF json_s.exc # "" THEN Loaded(json_s.exc, PyNone, PyNone)
    ELSE load_pair(json_loads(json_s.data))

\* what follows the read of json_s: the exceptions of the first try, then the
\* second
load_payload(json_s) ==
    IF json_s.exc \in OSErrors THEN NotFound
    ELSE IF json_s.exc # "" THEN Loaded(json_s.exc, PyNone, PyNone)
    ELSE load_pair(json_loads(json_s.data))

\* a reader that does not compare the tag
load_untagged(f) ==
    IF f.exc # "" THEN NotFound
    ELSE IF Len(f.data) < _FMT_size THEN NotFound
    ELSE load_payload(read_payload(f.data,
             _FMT_unpack(SubSeq(f.data, Len(f.data) - _FMT_size + 1,
                                Len(f.data))).json_len))

\* what follows open(): the footer, its tag, the payload
load_trailer(f) ==
    IF f.exc # "" THEN NotFound
    ELSE IF Len(f.data) < _FMT_size THEN NotFound
    ELSE IF _FMT_unpack(SubSeq(f.data, Len(f.data) - _FMT_size + 1,
                               Len(f.data))).tag # _TAG
         THEN NotFound
    ELSE load_payload(read_payload(f.data,
             _FMT_unpack(SubSeq(f.data, Len(f.data) - _FMT_size + 1,
                                Len(f.data))).json_len))

_load_checksum_trailer(md) == load_trailer(open_rb(PyStr(md.ext_path)))

\* ------------------------------------------------------------------------
\* repr(key).encode() of the key tuple: None, ASCII strings, lists and dicts.

ReprChar(c, quote) ==
    CASE c = 92 -> <<92, 92>>
      [] c = quote -> <<92, quote>>
      [] c = 9 -> <<92, 116>>
      [] c = 10 -> <<92, 110>>
      [] c = 13 -> <<92, 114>>
      [] c >= 32 /\ c <= 126 -> <<c>>
      [] OTHER -> <<92, 120, HexDigits[((c \div 16) % 16) + 1],
                    HexDigits[(c % 16) + 1]>>

repr_str(s) ==
    LET has(c) == \E i \in 1..Len(s) : s[i] = c
        quote == IF has(39) /\ ~has(34) THEN 34 ELSE 39
    IN  <<quote>> \o Flatten([i \in 1..Len(s) |-> ReprChar(s[i], quote)])
        \o <<quote>>

RECURSIVE repr(_)
repr(value) ==
    CASE value.t = "None" -> <<78, 111, 110, 101>>
      [] value.t = "str" -> repr_str(value.v)
      [] value.t = "list" ->
            <<91>> \o Join([i \in 1..Len(value.v) |-> repr(value.v[i])], <<44, 32>>)
            \o <<93>>
      [] value.t = "dict" ->
            <<123>> \o Join([i \in 1..Len(value.v) |->
                               repr(value.v[i][1]) \o <<58, 32>> \o repr(value.v[i][2])],
                            <<44, 32>>)
            \o <<125>>

repr_tuple(items) ==
    <<40>> \o Join([i \in 1..Len(items) |-> repr(items[i])], <<44, 32>>) \o <<41>>

\* hashlib.md5 as a hash without collisions: the digest spells, in hexadecimal,
\* the bytes the hash was fed.
hexdigest(h) ==
    [i \in 1..2 * Len(h) |->
        IF i % 2 = 1 THEN HexDigits[(h[(i + 1) \div 2] \div 16) + 1]
        ELSE HexDigits[(h[i \div 2] % 16) + 1]]

\* for item in value: [exc, items]
py_iter(value) ==
    CASE value.t = "list" -> [exc |-> "", items |-> value.v]
      [] value.t = "str" ->
            [exc |-> "", items |-> [i \in 1..Len(value.v) |-> PyStr(<<value.v[i]>>)]]
      [] value.t = "dict" ->
            [exc |-> "", items |-> [i \in 1..Len(value.v) |-> value.v[i][1]]]
      [] OTHER -> [exc |-> "TypeError", items |-> <<>>]

\* a loop that leaves the content of the files out of the hash
RECURSIVE update_sizes(_, _, _)
update_sizes(h, file_lst, i) ==
    IF i > Len(file_lst) THEN [exc |-> "", h |-> h]
    ELSE LET f == open_rb(file_lst[i]) IN
         IF f.exc # "" THEN [exc |-> f.exc, h |-> h]
         ELSE update_sizes(h \o pack_be_q(Len(f.data)) \o _TAG, file_lst, i + 1)

\* a loop that stops after the first file
update_first(h, file_lst, i) ==
    IF i > Len(file_lst) THEN [exc |-> "", h |-> h]
    ELSE IF open_rb(file_lst[i]).exc # ""
         THEN [exc |-> open_rb(file_lst[i]).exc, h |-> h]
    ELSE [exc |-> "",
          h |-> h \o pack_be_q(Len(open_rb(file_lst[i]).data))
                \o open_rb(file_lst[i]).data \o _TAG]

\* a loop that feeds no length: the content of each file and the tag
RECURSIVE update_tagged(_, _, _)
update_tagged(h, file_lst, i) ==
    IF i > Len(file_lst) THEN [exc |-> "", h |-> h]
    ELSE LET f == open_rb(file_lst[i]) IN
         IF f.exc # "" THEN [exc |-> f.exc, h |-> h]
         ELSE update_tagged(h \o f.data \o _TAG, file_lst, i + 1)

\* the loop over file_lst from its i-th file on: [exc, h]
RECURSIVE update_files(_, _, _)
update_files(h, file_lst, i) ==
    IF i > Len(file_lst) THEN [exc |-> "", h |-> h]
    ELSE LET f == open_rb(file_lst[i]) IN
         IF f.exc # "" THEN [exc |-> f.exc, h |-> h]
         ELSE update_files(h \o pack_be_q(Len(f.data)) \o f.data \o _TAG,
                           file_lst, i + 1)

\* a key without the compiler flags of the environment
checksum_key_without_flags(md) ==
    <<environ.cppimport_version, environ.mako_version, environ.setuptools_version,
      environ.sys_version, environ.base_exec_prefix, environ.exec_prefix,
      environ.executable, md.cfgbase>>

checksum_key(md) ==
    <<environ.cppimport_version, environ.mako_version, environ.setuptools_version,
      environ.sys_version, environ.base_exec_prefix, environ.exec_prefix,
      environ.executable, md.cfgbase, environ.CFLAGS, environ.CPPFLAGS,
      environ.CXXFLAGS>>

\* h.hexdigest() after the loop, or the exception that left the loop
digest_of(u) ==
    IF u.exc # "" THEN [exc |-> u.exc, digest |-> <<>>]
    ELSE [exc |-> "", digest |-> hexdigest(u.h)]

\* [exc, digest]
_calc_cur_checksum(file_lst, md) ==
    IF py_iter(file_lst).exc # ""
    THEN [exc |-> py_iter(file_lst).exc, digest |-> <<>>]
    ELSE digest_of(update_files(repr_tuple(checksum_key(md)),
                                py_iter(file_lst).items, 1))

\* a comparison that catches nothing
compare_uncaught(old_checksum, cur) ==
    IF cur.exc # "" THEN [exc |-> cur.exc, ret |-> FALSE]
    ELSE [exc |-> "", ret |-> old_checksum.t = "str" /\ old_checksum.v = cur.digest]

\* old_checksum == _calc_cur_checksum(deps, module_data), an OSError caught
compare_checksum(old_checksum, cur) ==
    IF cur.exc \in OSErrors THEN [exc |-> "", ret |-> FALSE]
    ELSE IF cur.exc # "" THEN [exc |-> cur.exc, ret |-> FALSE]
    ELSE [exc |-> "", ret |-> old_checksum.t = "str" /\ old_checksum.v = cur.digest]

\* cppimport.filepaths.make_absolute
make_absolute(root_dir, path) ==
    IF path # <<>> /\ path[1] = 47 THEN path
    ELSE IF root_dir # <<>> /\ root_dir[Len(root_dir)] = 47 THEN root_dir \o path
    ELSE root_dir \o <<47>> \o path

\* a list that starts with the source
dep_filepaths_source_first(md) ==
    <<md.filepath>>
    \o [i \in 1..Len(md.cfg.dependencies) |->
           make_absolute(md.filedirname, md.cfg.dependencies[i])]
    \o md.extra_source_filepaths

dep_filepaths_of(md) ==
    [i \in 1..Len(md.cfg.dependencies) |->
        make_absolute(md.filedirname, md.cfg.dependencies[i])]
    \o md.extra_source_filepaths \o <<md.filepath>>

PyStrList(paths) == PyList([i \in 1..Len(paths) |-> PyStr(paths[i])])

\* a validation over the files dependency discovery gives now
check_rediscovered(loaded, md) ==
    IF loaded.exc # "" THEN [exc |-> loaded.exc, ret |-> FALSE]
    ELSE IF loaded.old_checksum.t = "None" THEN [exc |-> "", ret |-> FALSE]
    ELSE compare_checksum(loaded.old_checksum,
                          _calc_cur_checksum(PyStrList(dep_filepaths_of(md)), md))

\* what follows the load of the trailer
check_loaded(loaded, md) ==
    IF loaded.exc # "" THEN [exc |-> loaded.exc, ret |-> FALSE]
    ELSE IF loaded.old_checksum.t = "None" THEN [exc |-> "", ret |-> FALSE]
    ELSE compare_checksum(loaded.old_checksum, _calc_cur_checksum(loaded.deps, md))

\* [exc, ret]
is_checksum_valid(md) == check_loaded(_load_checksum_trailer(md), md)

\* a write to the file opened "wb"
truncating_bytes(path, dump) ==
    IF fs[path].st = "unreadable" THEN [exc |-> "PermissionError", fs |-> fs]
    ELSE [exc |-> "", fs |-> [fs EXCEPT ![path] = [st |-> "ok", data |-> dump]]]

\* a write at the start of the file
prepend_bytes(path, dump) ==
    IF fs[path].st = "unreadable" THEN [exc |-> "PermissionError", fs |-> fs]
    ELSE [exc |-> "",
          fs |-> [fs EXCEPT ![path] = [st |-> "ok", data |-> dump \o fs[path].data]]]

\* open(ext_path, "ab", buffering=0) and one write: [exc, fs]
\* file.write(dump) to the file opened "ab"
append_bytes(path, dump) ==
    IF fs[path].st = "unreadable" THEN [exc |-> "PermissionError", fs |-> fs]
    ELSE [exc |-> "",
          fs |-> [fs EXCEPT ![path] = [st |-> "ok", data |-> fs[path].data \o dump]]]

\* a footer whose length counts the tag
with_long_footer(dump) == dump \o _FMT_pack(Len(dump) + Len(_TAG), _TAG)

\* dump += _FMT.pack(len(dump), _TAG)
with_footer(dump) == dump \o _FMT_pack(Len(dump), _TAG)

\* a writer that appends the payload and no footer
save_payload_only(md, dep_filepaths, cur_checksum) ==
    append_bytes(md.ext_path, json_dumps(PyList(<<dep_filepaths, cur_checksum>>)))

_save_checksum_trailer(md, dep_filepaths, cur_checksum) ==
    append_bytes(md.ext_path,
                 with_footer(json_dumps(PyList(<<dep_filepaths, cur_checksum>>))))

\* a stamp that is written whatever _calc_cur_checksum did
save_unchecked(md, dep_filepaths, cur) ==
    _save_checksum_trailer(md, dep_filepaths, PyStr(cur.digest))

\* the call of _save_checksum_trailer, unless _calc_cur_checksum raised
save_checksum(md, dep_filepaths, cur) ==
    IF cur.exc # "" THEN [exc |-> cur.exc, fs |-> fs]
    ELSE _save_checksum_trailer(md, dep_filepaths, PyStr(cur.digest))

\* [exc, fs]
checksum_save(md) ==
    save_checksum(md, PyStrList(dep_filepaths_of(md)),
                  _calc_cur_checksum(PyStrList(dep_filepaths_of(md)), md))

\* ------------------------------------------------------------------------
\* One module /d/s with a header /d/h, built into the extension /d/m.

SrcDir == <<47, 100>>
SrcPath == <<47, 100, 47, 115>>
HdrPath == <<47, 100, 47, 104>>
ExtPath == <<47, 100, 47, 109>>
DepPaths == {SrcPath, HdrPath}

FileContents == {<<65>>, <<66>>, <<65, 66>>}
HeaderContents == {<<65>>, <<66>>}
ContentsOf(p) == IF p = HdrPath THEN HeaderContents ELSE FileContents
BuiltBinary == <<127, 69, 76, 70>>

File(data) == [st |-> "ok", data |-> data]
Missing == [st |-> "missing", data |-> <<>>]
Unreadable == [st |-> "unreadable", data |-> <<>>]

Environ ==
    [cppimport_version |-> PyStr(<<50>>), mako_version |-> PyStr(<<49>>),
     setuptools_version |-> PyStr(<<54>>), sys_version |-> PyStr(<<51>>),
     base_exec_prefix |-> PyStr(<<47>>), exec_prefix |-> PyStr(<<47, 118>>),
     executable |-> PyStr(<<47, 112>>), CFLAGS |-> PyNone, CPPFLAGS |-> PyNone,
     CXXFLAGS |-> PyNone]

\* what dependency discovery can make of the module
ModuleData(dependencies, extra_source_filepaths) ==
    [filedirname |-> SrcDir, filepath |-> SrcPath, ext_path |-> ExtPath,
     cfg |-> [dependencies |-> dependencies],
     extra_source_filepaths |-> extra_source_filepaths, cfgbase |-> PyNone]

Discoveries ==
    {ModuleData(<<>>, <<>>), ModuleData(<<<<104>>>>, <<>>),
     ModuleData(<<>>, <<HdrPath>>)}

\* the trailers that may be appended to an extension before it is built again
MaxStamps == 1

Called(op, exc, ret) == [op |-> op, exc |-> exc, ret |-> ret]

\* no call of the module since the files or the discovery last changed
NoCall == Called("", "", PyNone)

\* no session of the IPython magic runs
NoMagics == tree = {} /\ db = <<>> /\ magics = <<>>

NoStamp ==
    [n |-> 0, fs |-> <<>>, key |-> <<>>, deps |-> <<>>, environ |-> <<>>,
     cfgbase |-> PyNone]

Pair(deps, old_checksum) == [deps |-> deps, old_checksum |-> old_checksum]

Init ==
    /\ fs \in {[p \in DepPaths \cup {ExtPath} |->
                   IF p = SrcPath THEN File(s) ELSE IF p = HdrPath THEN File(h)
                   ELSE Missing] : s \in ContentsOf(SrcPath), h \in ContentsOf(HdrPath)}
    /\ environ = Environ
    /\ module_data \in Discoveries
    /\ large_offsets = TRUE
    /\ last = NoCall
    /\ stamp = NoStamp
    /\ saved = <<>>
    /\ intact = TRUE
    /\ procs = <<>>
    /\ refused = FALSE
    /\ prev = NoCall
    /\ NoMagics

\* the build (not of this module) leaves a new extension without a trailer
Build ==
    /\ fs' = [fs EXCEPT ![ExtPath] = File(BuiltBinary)]
    /\ last' = Called("build", "", PyNone)
    /\ stamp' = NoStamp
    /\ saved' = <<>>
    /\ intact' = TRUE
    /\ UNCHANGED <<environ, module_data, large_offsets>>
    /\ UNCHANGED <<procs, refused>>
    /\ UNCHANGED <<prev, tree, db, magics>>

\* the state after a call of checksum_save that returned r
Saved(r) ==
    /\ fs' = r.fs
    /\ last' = Called("checksum_save", r.exc, PyNone)
    /\ stamp' = IF r.exc # "" THEN stamp
                ELSE [n |-> stamp.n + 1, fs |-> fs,
                      key |-> checksum_key(module_data),
                      deps |-> dep_filepaths_of(module_data),
                      environ |-> environ, cfgbase |-> module_data.cfgbase]
    /\ saved' = IF r.exc # "" THEN saved
                ELSE Append(saved,
                         Pair(PyStrList(dep_filepaths_of(module_data)),
                              PyStr(_calc_cur_checksum(
                                        PyStrList(dep_filepaths_of(module_data)),
                                        module_data).digest)))

ChecksumSave ==
    /\ fs[ExtPath].st = "ok"
    /\ stamp.n < MaxStamps
    /\ Saved(checksum_save(module_data))
    /\ UNCHANGED <<environ, module_data, large_offsets, intact>>
    /\ UNCHANGED <<procs, refused>>
    /\ UNCHANGED <<prev, tree, db, magics>>

\* a validation that removes the artifact it refuses
IsChecksumValidUnlinking ==
    /\ last' = Called("is_checksum_valid", is_checksum_valid(module_data).exc,
                      PyBool(is_checksum_valid(module_data).ret))
    /\ fs' = IF is_checksum_valid(module_data).ret THEN fs
             ELSE [fs EXCEPT ![ExtPath] = Missing]
    /\ UNCHANGED <<environ, module_data, large_offsets, stamp, saved, intact>>
    /\ UNCHANGED <<procs, refused>>
    /\ UNCHANGED <<prev, tree, db, magics>>

IsChecksumValid ==
    /\ last' = Called("is_checksum_valid", is_checksum_valid(module_data).exc,
                      PyBool(is_checksum_valid(module_data).ret))
    /\ UNCHANGED <<fs, environ, module_data, large_offsets, stamp, saved, intact>>
    /\ UNCHANGED <<procs, refused>>
    /\ UNCHANGED <<prev, tree, db, magics>>

WriteFile(p, data) ==
    /\ fs[p] # File(data)
    /\ fs' = [fs EXCEPT ![p] = File(data)]
    /\ last' = NoCall
    /\ UNCHANGED <<environ, module_data, large_offsets, stamp, saved, intact>>
    /\ UNCHANGED <<procs, refused>>
    /\ UNCHANGED <<prev, tree, db, magics>>

RemoveFile(p) ==
    /\ fs[p].st # "missing"
    /\ fs' = [fs EXCEPT ![p] = Missing]
    /\ last' = NoCall
    /\ UNCHANGED <<environ, module_data, large_offsets, stamp, saved, intact>>
    /\ UNCHANGED <<procs, refused>>
    /\ UNCHANGED <<prev, tree, db, magics>>

ChmodFile(p) ==
    /\ fs[p].st = "ok"
    /\ fs' = [fs EXCEPT ![p] = Unreadable]
    /\ last' = NoCall
    /\ UNCHANGED <<environ, module_data, large_offsets, stamp, saved, intact>>
    /\ UNCHANGED <<procs, refused>>
    /\ UNCHANGED <<prev, tree, db, magics>>

\* dependency discovery gives another result than it gave before
Rediscover ==
    /\ module_data' \in Discoveries \ {module_data}
    /\ last' = NoCall
    /\ UNCHANGED <<fs, environ, large_offsets, stamp, saved, intact>>
    /\ UNCHANGED <<procs, refused>>
    /\ UNCHANGED <<prev, tree, db, magics>>

Next ==
    \/ Build
    \/ ChecksumSave
    \/ IsChecksumValid
    \/ \E p \in DepPaths : \E data \in ContentsOf(p) : WriteFile(p, data)
    \/ \E p \in DepPaths : RemoveFile(p)
    \/ \E p \in DepPaths : ChmodFile(p)
    \/ Rediscover

Spec == Init /\ [][Next]_vars

\* ------------------------------------------------------------------------
\* The calls of checksum_save and is_checksum_valid (Spec).

\* the files the last stamp recorded are as they were when it was written
RecordedUnchanged ==
    \A i \in 1..Len(stamp.deps) : fs[stamp.deps[i]] = stamp.fs[stamp.deps[i]]

\* C1: once checksum_save has returned without an exception, is_checksum_valid
\* returns True for as long as no recorded file and no field of the environment
\* key has changed, whatever list of files checksum_save made of the dependencies.
C1_StampedIsValid ==
    (stamp.n > 0 /\ RecordedUnchanged /\ checksum_key(module_data) = stamp.key)
        => is_checksum_valid(module_data) = [exc |-> "", ret |-> TRUE]

C1_Witness ==
    /\ last.op = "checksum_save" /\ last.exc = ""
    /\ Len(stamp.deps) = 2
    /\ is_checksum_valid(module_data).ret

\* a recorded file that was readable at the stamp and now holds other bytes
RecordedChanged ==
    \E i \in 1..Len(stamp.deps) :
        /\ fs[stamp.deps[i]].st = "ok"
        /\ fs[stamp.deps[i]].data # stamp.fs[stamp.deps[i]].data

\* C2: when the content of a file recorded in the trailer differs from what it
\* was at the stamp, is_checksum_valid returns False.
C2_ChangedIsInvalid ==
    (stamp.n > 0 /\ RecordedChanged)
        => is_checksum_valid(module_data) = [exc |-> "", ret |-> FALSE]

C2_Witness ==
    /\ stamp.n > 0 /\ RecordedChanged
    /\ \A i \in 1..Len(stamp.deps) : fs[stamp.deps[i]].st = "ok"
    /\ last = Called("is_checksum_valid", "", PyBool(FALSE))

\* C3: in every state the verdict of is_checksum_valid is the same for every
\* result dependency discovery may have now: it is computed from the list the
\* trailer records, never from the dependencies, the extra sources or the
\* source path of module_data.
C3_VerdictOfTrailerOnly ==
    LET verdict == is_checksum_valid(module_data)
    IN  \A md \in Discoveries \ {module_data} : is_checksum_valid(md) = verdict

C3_Witness ==
    /\ stamp.n > 0
    /\ dep_filepaths_of(module_data) # stamp.deps
    /\ last = Called("is_checksum_valid", "", PyBool(TRUE))

\* C6: when a file recorded in the trailer is deleted or unreadable,
\* is_checksum_valid returns False and raises nothing.
C6_MissingIsInvalid ==
    (stamp.n > 0 /\ \E i \in 1..Len(stamp.deps) : fs[stamp.deps[i]].st # "ok")
        => is_checksum_valid(module_data) = [exc |-> "", ret |-> FALSE]

C6_Witness ==
    /\ stamp.n > 0
    /\ \E i \in 1..Len(stamp.deps) : fs[stamp.deps[i]].st = "unreadable"
    /\ last = Called("is_checksum_valid", "", PyBool(FALSE))

\* ------------------------------------------------------------------------
\* _save_checksum_trailer and _load_checksum_trailer on one artifact, and
\* the loss of its last byte or of a byte of its tag (SpecTrailer).

\* the trailers one artifact may receive
MaxSaves == 2

\* what the artifact holds before its first trailer: nothing, a binary, the
\* bare tag, a binary that ends with the footer of another payload
PriorArtifacts ==
    {<<>>, BuiltBinary, _TAG, BuiltBinary \o <<53>> \o _FMT_pack(1, _TAG)}

\* the digest of /d/s as it is now
SrcDigest ==
    PyStr(_calc_cur_checksum(PyStrList(<<SrcPath>>), module_data).digest)

\* a quote, a backslash, a tab and a line feed; e acute, the euro sign and a
\* character beyond the basic plane
OddPath == <<97, 34, 98, 92, 99, 9, 10>>
WidePath == <<233, 8364, 128512>>

TrailerInputs ==
    {Pair(PyList(<<>>), PyStr(<<>>)),
     Pair(PyStrList(<<SrcPath>>), SrcDigest),
     Pair(PyStrList(<<OddPath, WidePath>>), PyStr(_TAG)),
     Pair(PyStrList(<<HdrPath, SrcPath>>), PyStr(<<68, 49>>))}

\* the bytes that may replace a byte of the tag
TagNoise == {0, 84}

InitTrailer ==
    /\ fs \in {[p \in DepPaths \cup {ExtPath} |->
                   IF p = SrcPath THEN File(<<65>>)
                   ELSE IF p = HdrPath THEN File(<<66>>) ELSE File(prior)] :
               prior \in PriorArtifacts}
    /\ environ = Environ
    /\ module_data = ModuleData(<<>>, <<>>)
    /\ large_offsets = TRUE
    /\ last = NoCall
    /\ stamp = NoStamp
    /\ saved = <<>>
    /\ intact = TRUE
    /\ procs = <<>>
    /\ refused = FALSE
    /\ prev = NoCall
    /\ NoMagics

SaveChecksumTrailer(pair) ==
    /\ intact
    /\ Len(saved) < MaxSaves
    /\ fs' = _save_checksum_trailer(module_data, pair.deps, pair.old_checksum).fs
    /\ last' = Called("_save_checksum_trailer",
                      _save_checksum_trailer(module_data, pair.deps,
                                             pair.old_checksum).exc, PyNone)
    /\ saved' = Append(saved, pair)
    /\ UNCHANGED <<environ, module_data, large_offsets, stamp, intact>>
    /\ UNCHANGED <<procs, refused>>
    /\ UNCHANGED <<prev, tree, db, magics>>

\* the tuple a call returned
Returned(loaded) ==
    Called("_load_checksum_trailer", loaded.exc,
           PyList(<<loaded.deps, loaded.old_checksum>>))

LoadChecksumTrailer ==
    /\ last' = Returned(_load_checksum_trailer(module_data))
    /\ UNCHANGED <<fs, environ, module_data, large_offsets, stamp, saved, intact>>
    /\ UNCHANGED <<procs, refused>>
    /\ UNCHANGED <<prev, tree, db, magics>>

\* the stamped artifact loses its last byte
TruncateLastByte ==
    /\ intact
    /\ saved # <<>>
    /\ fs' = [fs EXCEPT ![ExtPath].data = SubSeq(@, 1, Len(@) - 1)]
    /\ intact' = FALSE
    /\ last' = NoCall
    /\ UNCHANGED <<environ, module_data, large_offsets, stamp, saved>>
    /\ UNCHANGED <<procs, refused>>
    /\ UNCHANGED <<prev, tree, db, magics>>

\* the i-th byte of the tag of the stamped artifact becomes b
OverwriteTagByte(i, b) ==
    /\ intact
    /\ saved # <<>>
    /\ b # _TAG[i]
    /\ fs' = [fs EXCEPT ![ExtPath].data[Len(fs[ExtPath].data) - Len(_TAG) + i] = b]
    /\ intact' = FALSE
    /\ last' = NoCall
    /\ UNCHANGED <<environ, module_data, large_offsets, stamp, saved>>
    /\ UNCHANGED <<procs, refused>>
    /\ UNCHANGED <<prev, tree, db, magics>>

NextTrailer ==
    \/ \E pair \in TrailerInputs : SaveChecksumTrailer(pair)
    \/ LoadChecksumTrailer
    \/ IsChecksumValid
    \/ TruncateLastByte
    \/ \E i \in 1..Len(_TAG), b \in TagNoise : OverwriteTagByte(i, b)

SpecTrailer == InitTrailer /\ [][NextTrailer]_vars

\* the result that returns the pair
LoadedPair(pair) == Loaded("", pair.deps, pair.old_checksum)

\* C4: right after _save_checksum_trailer(artifact, fileSet, digest) has
\* returned, whatever the artifact held before, _load_checksum_trailer returns
\* exactly (fileSet, digest).
C4_RoundTrip ==
    (last.op = "_save_checksum_trailer" /\ last.exc = "")
        => _load_checksum_trailer(module_data) = LoadedPair(saved[Len(saved)])

C4_Witness ==
    /\ last.op = "_save_checksum_trailer" /\ last.exc = ""
    /\ Len(saved) = 1
    /\ saved[1].deps = PyStrList(<<OddPath, WidePath>>)
    /\ Len(fs[ExtPath].data) > 80
    /\ _load_checksum_trailer(module_data).old_checksum = PyStr(_TAG)

\* C5: after two or more calls of _save_checksum_trailer on one artifact,
\* _load_checksum_trailer returns the pair of the last call, and the pair of
\* no earlier call that differs from it.
C5_LastWriterWins ==
    (Len(saved) >= 2 /\ intact)
        => /\ _load_checksum_trailer(module_data) = LoadedPair(saved[Len(saved)])
           /\ \A i \in 1..(Len(saved) - 1) :
                  saved[i] # saved[Len(saved)]
                      => _load_checksum_trailer(module_data) # LoadedPair(saved[i])

C5_Witness ==
    /\ Len(saved) = 2 /\ intact
    /\ saved[1] = Pair(PyStrList(<<OddPath, WidePath>>), PyStr(_TAG))
    /\ saved[2] = Pair(PyList(<<>>), PyStr(<<>>))
    /\ last = Returned(LoadedPair(saved[2]))

\* C8: once a stamped artifact has lost its last byte, or a byte of its tag
\* has another value, _load_checksum_trailer returns (None, None) and
\* is_checksum_valid returns False, and neither raises.
C8_CorruptIsNotFound ==
    (saved # <<>> /\ ~intact)
        => /\ _load_checksum_trailer(module_data) = NotFound
           /\ is_checksum_valid(module_data) = [exc |-> "", ret |-> FALSE]

\* the artifact had a valid stamp, lost its last byte, and was then read
C8_Witness ==
    /\ ~intact
    /\ saved[Len(saved)] = Pair(PyStrList(<<SrcPath>>), SrcDigest)
    /\ SubSeq(fs[ExtPath].data, Len(fs[ExtPath].data) - 7, Len(fs[ExtPath].data))
           = SubSeq(_TAG, 1, 8)
    /\ last = Returned(NotFound)

\* ------------------------------------------------------------------------
\* is_checksum_valid and _load_checksum_trailer on artifacts that
\* _save_checksum_trailer did not write (SpecForeign).

\* payload + json_len (8 bytes, least significant first) + tag
Footed(payload, json_len) == BuiltBinary \o payload \o json_len \o _TAG

\* payload with the footer that gives its length
Foreign(payload) == BuiltBinary \o payload \o _FMT_pack(Len(payload), _TAG)

\* 5, null, [1, 2], "ab", [1], xyz, {"a": 1, "b": 2}, the empty payload
ForeignPayloads ==
    {<<53>>, <<110, 117, 108, 108>>, <<91, 49, 44, 32, 50, 93>>,
     <<34, 97, 98, 34>>, <<91, 49, 93>>, <<120, 121, 122>>,
     <<123, 34, 97, 34, 58, 32, 49, 44, 32, 34, 98, 34, 58, 32, 50, 125>>,
     <<>>}

\* [["/d/s"], 7], [7, "x"], ["/d/s", "x"], [[null], "x"], [null, "x"],
\* [["/d/s"], "x"]
ForeignPairs ==
    {<<91, 91, 34, 47, 100, 47, 115, 34, 93, 44, 32, 55, 93>>,
     <<91, 55, 44, 32, 34, 120, 34, 93>>,
     <<91, 34, 47, 100, 47, 115, 34, 44, 32, 34, 120, 34, 93>>,
     <<91, 91, 110, 117, 108, 108, 93, 44, 32, 34, 120, 34, 93>>,
     <<91, 110, 117, 108, 108, 44, 32, 34, 120, 34, 93>>,
     <<91, 91, 34, 47, 100, 47, 115, 34, 93, 44, 32, 34, 120, 34, 93>>}

\* 100, 2^63 - 17, 2^63 - 16, 2^63 - 1, -1, -2, -2^50, -2^63
ForeignLengths ==
    {<<100, 0, 0, 0, 0, 0, 0, 0>>,
     <<239, 255, 255, 255, 255, 255, 255, 127>>,
     <<240, 255, 255, 255, 255, 255, 255, 127>>,
     <<255, 255, 255, 255, 255, 255, 255, 127>>,
     <<255, 255, 255, 255, 255, 255, 255, 255>>,
     <<254, 255, 255, 255, 255, 255, 255, 255>>,
     <<0, 0, 0, 0, 0, 0, 252, 255>>,
     <<0, 0, 0, 0, 0, 0, 0, 128>>}

ForeignArtifacts ==
    {<<>>, BuiltBinary, SubSeq(Foreign(<<53>>), 6, 21),
     BuiltBinary \o <<53>> \o _FMT_pack(1, <<67, 80, 80, 73, 77, 80, 79, 82, 84>>)}
    \cup {Foreign(payload) : payload \in ForeignPayloads \cup ForeignPairs}
    \cup {Footed(<<120, 121, 122>>, json_len) : json_len \in ForeignLengths}

InitForeign ==
    /\ fs \in {[p \in DepPaths \cup {ExtPath} |->
                   IF p = SrcPath THEN File(<<65>>)
                   ELSE IF p = HdrPath THEN File(<<66>>) ELSE ext] :
               ext \in {File(data) : data \in ForeignArtifacts}
                       \cup {Missing, Unreadable}}
    /\ environ = Environ
    /\ module_data = ModuleData(<<>>, <<>>)
    /\ large_offsets \in BOOLEAN
    /\ last = NoCall
    /\ stamp = NoStamp
    /\ saved = <<>>
    /\ intact = TRUE
    /\ procs = <<>>
    /\ refused = FALSE
    /\ prev = NoCall
    /\ NoMagics

NextForeign ==
    \/ LoadChecksumTrailer
    \/ IsChecksumValid
    \/ RemoveFile(SrcPath)
    \/ ChmodFile(SrcPath)
    \/ WriteFile(SrcPath, <<65>>)

SpecForeign == InitForeign /\ [][NextForeign]_vars

\* C7: is_checksum_valid never raises, whatever the artifact holds and whatever
\* the state of the files: every call returns a boolean.
C7_NeverRaises ==
    last.op = "is_checksum_valid" => last.exc = "" /\ last.ret.t = "bool"

\* the artifact is a readable file
ArtifactIsFile == fs[ExtPath].st = "ok"

\* the footer of the artifact
Footer ==
    _FMT_unpack(SubSeq(fs[ExtPath].data, Len(fs[ExtPath].data) - _FMT_size + 1,
                       Len(fs[ExtPath].data)))

ShorterThanFooter == ArtifactIsFile /\ Len(fs[ExtPath].data) < _FMT_size

TagMatches ==
    ArtifactIsFile /\ Len(fs[ExtPath].data) >= _FMT_size /\ Footer.tag = _TAG

\* 0 <= payload_length, and the payload would start before byte 0
LengthBeforeStart ==
    /\ ~IsNegative(Footer.json_len)
    /\ ~(IsSmall(Footer.json_len)
         /\ Low3(Footer.json_len) + _FMT_size <= Len(fs[ExtPath].data))

\* C9: _load_checksum_trailer returns (None, None) and raises nothing when the
\* artifact is shorter than the footer, and when the tag matches and
\* payload_length is larger than the bytes before the footer.
C9_ShortOrBeforeStart ==
    (last.op = "_load_checksum_trailer"
     /\ (ShorterThanFooter \/ (TagMatches /\ LengthBeforeStart)))
        => last = Returned(NotFound)

\* the payload_length bytes before the footer can be read
PayloadReadable ==
    /\ TagMatches
    /\ IsSmall(Footer.json_len)
    /\ Low3(Footer.json_len) + _FMT_size <= Len(fs[ExtPath].data)

\* the payload is a two-element list of a list of strings and a string
DecodesToPair(value) ==
    /\ value.exc = ""
    /\ value.val.t = "list"
    /\ Len(value.val.v) = 2
    /\ value.val.v[1].t = "list"
    /\ \A i \in 1..Len(value.val.v[1].v) : value.val.v[1].v[i].t = "str"
    /\ value.val.v[2].t = "str"

\* C10: _load_checksum_trailer returns (None, None) and raises nothing when
\* the tag matches and the payload can be read but does not decode to a pair
\* of a path list and a digest string.
C10_UndecodableIsNotFound ==
    (last.op = "_load_checksum_trailer" /\ PayloadReadable
     /\ ~DecodesToPair(json_loads(read_payload(fs[ExtPath].data,
                                               Footer.json_len).data)))
        => last = Returned(NotFound)

\* ------------------------------------------------------------------------
\* The environment key changes between checksum_save and is_checksum_valid
\* (SpecKey).

VersionFields ==
    {"cppimport_version", "mako_version", "setuptools_version", "sys_version"}
PrefixFields == {"base_exec_prefix", "exec_prefix", "executable"}
FlagFields == {"CFLAGS", "CPPFLAGS", "CXXFLAGS"}
KeyFields == VersionFields \cup PrefixFields \cup FlagFields

\* the values a field of the environment may have: another version, another
\* prefix; a flag variable unset, empty or -O
ValuesOf(field) ==
    IF field \in VersionFields THEN {Environ[field], PyStr(<<51>>), PyStr(<<57>>)}
    ELSE IF field \in PrefixFields THEN {Environ[field], PyStr(<<47>>), PyStr(<<47, 118>>)}
    ELSE {PyNone, PyStr(<<>>), PyStr(<<45, 79>>)}

\* cfgbase: none, or the extra_compile_args the cell magic passes
CfgBases ==
    {PyNone,
     PyDict(<<<<PyStr(<<101, 120, 116, 114, 97, 95, 99, 111, 109, 112, 105, 108,
                        101, 95, 97, 114, 103, 115>>),
                PyList(<<PyStr(<<45, 68>>)>>)>>>>)}

InitKey ==
    /\ fs = [p \in DepPaths \cup {ExtPath} |->
                IF p = SrcPath THEN File(<<65>>)
                ELSE IF p = HdrPath THEN File(<<66>>) ELSE Missing]
    /\ environ \in {Environ, [Environ EXCEPT !.CFLAGS = PyStr(<<45, 79>>)]}
    /\ module_data = ModuleData(<<<<104>>>>, <<>>)
    /\ large_offsets = TRUE
    /\ last = NoCall
    /\ stamp = NoStamp
    /\ saved = <<>>
    /\ intact = TRUE
    /\ procs = <<>>
    /\ refused = FALSE
    /\ prev = NoCall
    /\ NoMagics

\* one field of the environment gets another value, the others being those
\* of Environ
ChangeEnviron(field, value) ==
    /\ environ[field] # value
    /\ \A other \in KeyFields \ {field} : environ[other] = Environ[other]
    /\ module_data.cfgbase = PyNone
    /\ environ' = [environ EXCEPT ![field] = value]
    /\ last' = NoCall
    /\ UNCHANGED <<fs, module_data, large_offsets, stamp, saved, intact>>
    /\ UNCHANGED <<procs, refused>>
    /\ UNCHANGED <<prev, tree, db, magics>>

\* the module is imported with another cfgbase
ChangeCfgbase(value) ==
    /\ module_data.cfgbase # value
    /\ environ = Environ
    /\ module_data' = [module_data EXCEPT !.cfgbase = value]
    /\ last' = NoCall
    /\ UNCHANGED <<fs, environ, large_offsets, stamp, saved, intact>>
    /\ UNCHANGED <<procs, refused>>
    /\ UNCHANGED <<prev, tree, db, magics>>

NextKey ==
    \/ Build
    \/ ChecksumSave
    \/ IsChecksumValid
    \/ \E field \in KeyFields : \E value \in ValuesOf(field) :
           ChangeEnviron(field, value)
    \/ \E value \in CfgBases : ChangeCfgbase(value)

SpecKey == InitKey /\ [][NextKey]_vars

\* C11: when a field of the environment key is not what it was when
\* checksum_save stamped the artifact, and the recorded files are unchanged,
\* is_checksum_valid returns False.
C11_KeyChangedIsInvalid ==
    (stamp.n > 0 /\ RecordedUnchanged
     /\ (environ # stamp.environ \/ module_data.cfgbase # stamp.cfgbase))
        => is_checksum_valid(module_data) = [exc |-> "", ret |-> FALSE]

\* stamped with CXXFLAGS unset, validated with CXXFLAGS set and empty
C11_Witness ==
    /\ stamp.n > 0 /\ RecordedUnchanged
    /\ stamp.environ.CXXFLAGS = PyNone
    /\ environ.CXXFLAGS = PyStr(<<>>)
    /\ last = Called("is_checksum_valid", "", PyBool(FALSE))

\* ------------------------------------------------------------------------
\* The trailers an artifact holds, counted back from its end.

\* the footer at the end of data
FooterOf(data) ==
    _FMT_unpack(SubSeq(data, Len(data) - _FMT_size + 1, Len(data)))

\* the bytes before the footer that the footer counts as its payload
PayloadOf(data) ==
    SubSeq(data, Len(data) - _FMT_size - Low3(FooterOf(data).json_len) + 1,
           Len(data) - _FMT_size)

\* data ends with a complete trailer: a footer with the tag and the payload
\* it counts, a pair of a path list and a digest
EndsWithTrailer(data) ==
    /\ Len(data) >= _FMT_size
    /\ FooterOf(data).tag = _TAG
    /\ IsSmall(FooterOf(data).json_len)
    /\ Low3(FooterOf(data).json_len) + _FMT_size <= Len(data)
    /\ DecodesToPair(json_loads(PayloadOf(data)))

BeforeTrailer(data) ==
    SubSeq(data, 1, Len(data) - _FMT_size - Low3(FooterOf(data).json_len))

\* the consecutive complete trailers data ends with
RECURSIVE TrailerCount(_)
TrailerCount(data) ==
    IF EndsWithTrailer(data) THEN 1 + TrailerCount(BeforeTrailer(data)) ELSE 0

\* ------------------------------------------------------------------------
\* Two processes that saw a cache miss build and stamp one artifact
\* (SpecRace).

Procs == {1, 2}

Proc(pc, deps, cur) == [pc |-> pc, deps |-> deps, cur |-> cur]

InitRace ==
    /\ fs \in {[p \in DepPaths \cup {ExtPath} |->
                   IF p = SrcPath THEN File(s)
                   ELSE IF p = HdrPath THEN File(<<66>>) ELSE ext] :
               s \in FileContents, ext \in {Missing, File(BuiltBinary)}}
    /\ environ = Environ
    /\ module_data \in Discoveries
    /\ large_offsets = TRUE
    /\ last = NoCall
    /\ stamp = NoStamp
    /\ saved = <<>>
    /\ intact = TRUE
    /\ procs = [p \in Procs |-> Proc("build", PyNone, PyNone)]
    /\ refused = FALSE
    /\ prev = NoCall
    /\ NoMagics

\* process p builds the extension: a new binary without a trailer
ProcBuild(p) ==
    /\ procs[p].pc = "build"
    /\ fs' = [fs EXCEPT ![ExtPath] = File(BuiltBinary)]
    /\ saved' = <<>>
    /\ procs' = [procs EXCEPT ![p].pc = "checksum_save"]
    /\ last' = NoCall
    /\ UNCHANGED <<environ, module_data, large_offsets, stamp, intact, refused>>
    /\ UNCHANGED <<prev, tree, db, magics>>

\* process p after _calc_cur_checksum returned cur or raised
Calculated(p, dep_filepaths, cur) ==
    procs' = [procs EXCEPT ![p] =
                 IF cur.exc # "" THEN Proc("raised", dep_filepaths, PyNone)
                 ELSE Proc("_save_checksum_trailer", dep_filepaths,
                           PyStr(cur.digest))]

\* checksum_save in process p, up to the call of _save_checksum_trailer
ProcCalcCurChecksum(p) ==
    /\ procs[p].pc = "checksum_save"
    /\ Calculated(p, PyStrList(dep_filepaths_of(module_data)),
                  _calc_cur_checksum(PyStrList(dep_filepaths_of(module_data)),
                                     module_data))
    /\ last' = NoCall
    /\ UNCHANGED <<fs, environ, module_data, large_offsets, stamp, saved, intact,
                   refused>>
    /\ UNCHANGED <<prev, tree, db, magics>>

\* the state after _save_checksum_trailer returned r in process p
Appended(p, r) ==
    /\ fs' = r.fs
    /\ last' = Called("checksum_save", r.exc, PyNone)
    /\ saved' = IF r.exc # "" THEN saved
                ELSE Append(saved, Pair(procs[p].deps, procs[p].cur))
    /\ procs' = [procs EXCEPT ![p].pc = IF r.exc # "" THEN "raised" ELSE "done"]

\* _save_checksum_trailer in process p: the open for append and the one write
ProcSaveChecksumTrailer(p) ==
    /\ procs[p].pc = "_save_checksum_trailer"
    /\ Appended(p, _save_checksum_trailer(module_data, procs[p].deps, procs[p].cur))
    /\ UNCHANGED <<environ, module_data, large_offsets, stamp, intact, refused>>
    /\ UNCHANGED <<prev, tree, db, magics>>

NextRace ==
    \/ \E p \in Procs : ProcBuild(p)
    \/ \E p \in Procs : ProcCalcCurChecksum(p)
    \/ \E p \in Procs : ProcSaveChecksumTrailer(p)
    \/ LoadChecksumTrailer
    \/ IsChecksumValid

SpecRace == InitRace /\ [][NextRace]_vars

\* both appends are complete
BothAppended == \A p \in Procs : procs[p].pc = "done"

\* C12 as claimed: in every interleaving where both appends complete, the
\* artifact ends with two consecutive complete trailers, _load_checksum_trailer
\* returns the pair written last and is_checksum_valid returns True.
C12_TwoTrailers ==
    BothAppended
        => /\ TrailerCount(fs[ExtPath].data) = 2
           /\ _load_checksum_trailer(module_data) = LoadedPair(saved[Len(saved)])
           /\ is_checksum_valid(module_data) = [exc |-> "", ret |-> TRUE]

\* C12, amended: in every interleaving where both appends complete, the
\* artifact ends with one complete trailer for each append made since it was
\* last built (two when both builds came before both appends, one when a
\* build fell between the appends), _load_checksum_trailer returns the pair
\* written last and is_checksum_valid returns True.
C12_TrailerPerAppend ==
    BothAppended
        => /\ Len(saved) \in {1, 2}
           /\ TrailerCount(fs[ExtPath].data) = Len(saved)
           /\ fs[ExtPath].data # BuiltBinary
           /\ _load_checksum_trailer(module_data) = LoadedPair(saved[Len(saved)])
           /\ is_checksum_valid(module_data) = [exc |-> "", ret |-> TRUE]

\* both built before either appended, and the artifact was validated
C12_Witness ==
    /\ BothAppended
    /\ Len(saved) = 2
    /\ TrailerCount(fs[ExtPath].data) = 2
    /\ last = Called("is_checksum_valid", "", PyBool(TRUE))

\* ------------------------------------------------------------------------
\* _save_checksum_trailer is interrupted in its write (SpecInterrupt).

\* what a build leaves: nothing, a binary, a binary that is the tag
BuiltArtifacts == {<<>>, BuiltBinary, _TAG}

InitInterrupt ==
    /\ fs \in {[p \in DepPaths \cup {ExtPath} |->
                   IF p = SrcPath THEN File(<<65>>)
                   ELSE IF p = HdrPath THEN File(<<66>>) ELSE File(built)] :
               built \in BuiltArtifacts}
    /\ environ = Environ
    /\ module_data = ModuleData(<<>>, <<>>)
    /\ large_offsets = TRUE
    /\ last = NoCall
    /\ stamp = NoStamp
    /\ saved = <<>>
    /\ intact = TRUE
    /\ procs = <<>>
    /\ refused = FALSE
    /\ prev = NoCall
    /\ NoMagics

\* the dump _save_checksum_trailer(module_data, deps, old_checksum) writes
DumpOf(pair) == with_footer(json_dumps(PyList(<<pair.deps, pair.old_checksum>>)))

\* a call that completes, the first on this artifact
SaveFirstTrailer(pair) ==
    /\ saved = <<>>
    /\ procs = <<>>
    /\ SaveChecksumTrailer(pair)

\* file.write(dump) writes the first k bytes of dump and no more
InterruptedSave(pair, k) ==
    /\ procs = <<>>
    /\ fs' = append_bytes(module_data.ext_path, SubSeq(DumpOf(pair), 1, k)).fs
    /\ procs' = <<Proc("interrupted", pair.deps, pair.old_checksum)>>
    /\ last' = Called("_save_checksum_trailer", "KeyboardInterrupt", PyNone)
    /\ UNCHANGED <<environ, module_data, large_offsets, stamp, saved, intact,
                   refused>>
    /\ UNCHANGED <<prev, tree, db, magics>>

NextInterrupt ==
    \/ \E pair \in TrailerInputs : SaveFirstTrailer(pair)
    \/ \E pair \in TrailerInputs :
           \E k \in 0..(Len(DumpOf(pair)) - 1) : InterruptedSave(pair, k)
    \/ LoadChecksumTrailer
    \/ IsChecksumValid

SpecInterrupt == InitInterrupt /\ [][NextInterrupt]_vars

\* C13: after a write of _save_checksum_trailer that stopped after any proper
\* prefix of the trailer, on an artifact with or without an earlier trailer,
\* _load_checksum_trailer raises nothing and returns (None, None) or the pair
\* of the earlier, complete trailer.
C13_InterruptedIsSafe ==
    procs # <<>>
        => \/ _load_checksum_trailer(module_data) = NotFound
           \/ /\ saved # <<>>
              /\ _load_checksum_trailer(module_data) = LoadedPair(saved[Len(saved)])

\* the write stopped right after the text cppimport of the digest, so the file
\* ends with the tag, and the load found no trailer
C13_Witness ==
    /\ procs # <<>>
    /\ saved # <<>>
    /\ procs[1].cur = PyStr(_TAG)
    /\ TagMatches
    /\ ~EndsWithTrailer(fs[ExtPath].data)
    /\ last = Returned(NotFound)

\* ------------------------------------------------------------------------
\* An artifact is stamped again without a rebuild, and validated on later
\* runs while its source is edited and restored (SpecRestamp).

\* the calls of checksum_save that may return between two builds
MaxRestamps == 2

InitRestamp ==
    /\ fs \in {[p \in DepPaths \cup {ExtPath} |->
                   IF p = SrcPath THEN File(s)
                   ELSE IF p = HdrPath THEN File(<<66>>) ELSE ext] :
               s \in FileContents, ext \in {Missing, File(BuiltBinary)}}
    /\ environ = Environ
    /\ module_data = ModuleData(<<<<104>>>>, <<>>)
    /\ large_offsets = TRUE
    /\ last = NoCall
    /\ stamp = NoStamp
    /\ saved = <<>>
    /\ intact = TRUE
    /\ procs = <<>>
    /\ refused = FALSE
    /\ prev = NoCall
    /\ NoMagics

\* the state after a call of checksum_save that returned r
Restamped(r) ==
    /\ Saved(r)
    /\ refused' = (refused /\ r.exc # "")

\* checksum_save on an artifact that may hold a trailer already
Restamp ==
    /\ fs[ExtPath].st = "ok"
    /\ stamp.n < MaxRestamps
    /\ Restamped(checksum_save(module_data))
    /\ UNCHANGED <<environ, module_data, large_offsets, intact, procs>>
    /\ UNCHANGED <<prev, tree, db, magics>>

\* the state after a call of is_checksum_valid that returned v
Revalidated(v) ==
    /\ last' = Called("is_checksum_valid", v.exc, PyBool(v.ret))
    /\ refused' = (refused \/ (stamp.n > 0 /\ v.exc = "" /\ ~v.ret))
    /\ prev' = last

\* a validation that persists its verdict: it removes the artifact it refuses
RevalidateDiscarding ==
    /\ Revalidated(is_checksum_valid(module_data))
    /\ fs' = IF is_checksum_valid(module_data).ret THEN fs
             ELSE [fs EXCEPT ![ExtPath] = Missing]
    /\ UNCHANGED <<environ, module_data, large_offsets, stamp, saved, intact,
                   procs>>
    /\ UNCHANGED <<tree, db, magics>>

\* a validation that repairs what it refuses: it stamps the artifact anew
RevalidateRepairing ==
    /\ Revalidated(is_checksum_valid(module_data))
    /\ fs' = IF is_checksum_valid(module_data).ret THEN fs
             ELSE checksum_save(module_data).fs
    /\ UNCHANGED <<environ, module_data, large_offsets, stamp, saved, intact,
                   procs>>
    /\ UNCHANGED <<tree, db, magics>>

\* is_checksum_valid on a later run
Revalidate ==
    /\ Revalidated(is_checksum_valid(module_data))
    /\ UNCHANGED <<fs, environ, module_data, large_offsets, stamp, saved, intact,
                   procs>>
    /\ UNCHANGED <<tree, db, magics>>

NextRestamp ==
    \/ Build
    \/ Restamp
    \/ Revalidate
    \/ \E data \in FileContents : WriteFile(SrcPath, data)
    \/ RemoveFile(SrcPath)

SpecRestamp == InitRestamp /\ [][NextRestamp]_vars

\* C14 as claimed: in every state reachable by build, checksum_save and
\* is_checksum_valid the artifact holds no trailer or exactly one, at its end.
C14_AtMostOneTrailer ==
    fs[ExtPath].st = "ok" => TrailerCount(fs[ExtPath].data) <= 1

\* the artifact without its last n trailers
RECURSIVE WithoutTrailers(_, _)
WithoutTrailers(data, n) ==
    IF n = 0 \/ ~EndsWithTrailer(data) THEN data
    ELSE WithoutTrailers(BeforeTrailer(data), n - 1)

\* C14, amended: in every such state the artifact is the binary the build
\* left followed by one complete trailer for each checksum_save that returned
\* since that build, the last trailer ending at the end of the file; it holds
\* none or exactly one as long as no artifact is stamped twice without a
\* rebuild.
C14_TrailerPerStamp ==
    fs[ExtPath].st = "ok"
        => /\ TrailerCount(fs[ExtPath].data) = stamp.n
           /\ WithoutTrailers(fs[ExtPath].data, stamp.n) = BuiltBinary

\* stamped twice without a rebuild
C14_Witness ==
    /\ stamp.n = 2
    /\ TrailerCount(fs[ExtPath].data) = 2
    /\ saved[1] # saved[2]
    /\ last.op = "is_checksum_valid"

\* C20: when is_checksum_valid has returned False for a stamped artifact
\* because a recorded file was modified or deleted, and the recorded files
\* hold their stamp-time content again, with no rebuild and no new stamp in
\* between, is_checksum_valid returns True.
C20_InvalidityNotSticky ==
    (stamp.n > 0 /\ refused /\ RecordedUnchanged)
        => is_checksum_valid(module_data) = [exc |-> "", ret |-> TRUE]

\* refused, restored, and validated again
C20_Witness ==
    /\ stamp.n > 0 /\ refused /\ RecordedUnchanged
    /\ last = Called("is_checksum_valid", "", PyBool(TRUE))

C15_StrictlyAdditive ==
    [][saved' # saved
         => /\ SubSeq(fs'[ExtPath].data, 1, Len(fs[ExtPath].data)) = fs[ExtPath].data
            /\ Len(fs'[ExtPath].data)
                 = Len(fs[ExtPath].data)
                   + Len(json_dumps(PyList(<<saved'[Len(saved')].deps,
                                            saved'[Len(saved')].old_checksum>>)))
                   + _FMT_size
            /\ \A p \in DepPaths : fs'[p] = fs[p]]_vars

\* a second trailer was appended to a binary that held one
C15_Witness ==
    /\ last = Called("_save_checksum_trailer", "", PyNone)
    /\ Len(saved) = 2
    /\ SubSeq(fs[ExtPath].data, 1, Len(BuiltBinary)) = BuiltBinary
    /\ TrailerCount(fs[ExtPath].data) = 2

\* C16: a call of is_checksum_valid, whatever it returns, leaves the artifact
\* and every other file with the bytes they had, and leaves the environment,
\* module_data and the stamp as they were: nothing of the verdict is kept.
C16_ValidationReadsOnly ==
    [][last'.op = "is_checksum_valid"
         => /\ fs' = fs
            /\ UNCHANGED <<environ, module_data, stamp, saved>>]_vars

\* a stamped artifact was refused and still ends with its trailer
C16_Witness ==
    /\ last = Called("is_checksum_valid", "", PyBool(FALSE))
    /\ stamp.n > 0
    /\ fs[ExtPath].st = "ok"
    /\ TrailerCount(fs[ExtPath].data) = stamp.n

\* a file checksum_save would read is missing or unreadable
UnreadableDependency ==
    \E i \in 1..Len(dep_filepaths_of(module_data)) :
        fs[dep_filepaths_of(module_data)[i]].st # "ok"

\* C17: a call of checksum_save while a file of its FileSet cannot be read
\* raises an OSError and leaves every file as it was, so no byte of a trailer
\* is appended; a freshly built artifact whose stamp failed this way is
\* refused by is_checksum_valid.
C17_FailedStampLeavesArtifact ==
    /\ [][(last'.op = "checksum_save" /\ UnreadableDependency)
             => /\ last'.exc \in OSErrors
                /\ fs' = fs
                /\ stamp' = stamp]_vars
    /\ []((last.op = "checksum_save" /\ last.exc # "" /\ stamp.n = 0)
             => /\ last.exc \in OSErrors
                /\ fs[ExtPath] = File(BuiltBinary)
                /\ is_checksum_valid(module_data) = [exc |-> "", ret |-> FALSE])

\* the stamp of a fresh build failed on a missing file
C17_Witness ==
    /\ last = Called("checksum_save", "FileNotFoundError", PyNone)
    /\ stamp.n = 0
    /\ fs[ExtPath] = File(BuiltBinary)
    /\ UnreadableDependency

\* ------------------------------------------------------------------------
\* A module with two dependencies and generated sources: the order of the
\* files that checksum_save records and hashes (SpecOrder).

GenPath == <<47, 100, 47, 103>>
OrderPaths == {SrcPath, HdrPath, GenPath}

\* dependencies as configured: h, g (relative to /d) and /d/g
DependencyLists ==
    {<<>>, <<<<104>>>>, <<<<104>>, <<103>>>>, <<<<103>>, <<104>>>>, <<GenPath>>}

ExtraSourceLists == {<<>>, <<GenPath>>, <<GenPath, HdrPath>>}

InitOrder ==
    /\ fs \in {[p \in OrderPaths \cup {ExtPath} |->
                   IF p = SrcPath THEN File(<<65>>)
                   ELSE IF p = HdrPath THEN File(h)
                   ELSE IF p = GenPath THEN File(g) ELSE Missing] :
               h \in HeaderContents, g \in HeaderContents}
    /\ environ = Environ
    /\ module_data \in {ModuleData(dependencies, extra_source_filepaths) :
                           dependencies \in DependencyLists,
                           extra_source_filepaths \in ExtraSourceLists}
    /\ large_offsets = TRUE
    /\ last = NoCall
    /\ stamp = NoStamp
    /\ saved = <<>>
    /\ intact = TRUE
    /\ procs = <<>>
    /\ refused = FALSE
    /\ prev = NoCall
    /\ NoMagics

\* the lists of files _calc_cur_checksum is called with
FileLists ==
    {<<SrcPath, HdrPath, GenPath>>, <<SrcPath, GenPath, HdrPath>>,
     <<HdrPath, SrcPath, GenPath>>, <<HdrPath, GenPath, SrcPath>>,
     <<GenPath, SrcPath, HdrPath>>, <<GenPath, HdrPath, SrcPath>>,
     <<HdrPath, GenPath>>, <<GenPath, HdrPath>>,
     <<SrcPath, HdrPath>>, <<HdrPath, SrcPath>>}

\* the state after a call of _calc_cur_checksum that returned cur
Calculation(cur) ==
    last' = Called("_calc_cur_checksum", cur.exc, PyStr(cur.digest))

CalcCurChecksum(file_lst) ==
    /\ Calculation(_calc_cur_checksum(PyStrList(file_lst), module_data))
    /\ UNCHANGED <<fs, environ, module_data, large_offsets, stamp, saved, intact,
                   procs, refused>>
    /\ UNCHANGED <<prev, tree, db, magics>>

NextOrder ==
    \/ Build
    \/ ChecksumSave
    \/ LoadChecksumTrailer
    \/ \E file_lst \in FileLists : CalcCurChecksum(file_lst)

SpecOrder == InitOrder /\ [][NextOrder]_vars

\* the FileSet of the module: each dependency made absolute against the
\* directory of the source, then each extra source, then the source
FileSetOf(md) ==
    [i \in 1..(Len(md.cfg.dependencies) + Len(md.extra_source_filepaths) + 1) |->
        IF i <= Len(md.cfg.dependencies)
        THEN make_absolute(md.filedirname, md.cfg.dependencies[i])
        ELSE IF i <= Len(md.cfg.dependencies) + Len(md.extra_source_filepaths)
        THEN md.extra_source_filepaths[i - Len(md.cfg.dependencies)]
        ELSE md.filepath]

\* C18: the trailer checksum_save has just written records the dependencies
\* made absolute, in configuration order, then the extra sources, then the
\* source, and its digest is the digest of that list in that order.
C18_RecordedOrder ==
    (last = Called("checksum_save", "", PyNone))
        => /\ _load_checksum_trailer(module_data).deps
                = PyStrList(FileSetOf(module_data))
           /\ _load_checksum_trailer(module_data).old_checksum
                = PyStr(_calc_cur_checksum(
                            _load_checksum_trailer(module_data).deps,
                            module_data).digest)

\* two relative dependencies, two extra sources and the source, five paths
C18_Witness ==
    /\ last = Called("checksum_save", "", PyNone)
    /\ module_data.cfg.dependencies = <<<<103>>, <<104>>>>
    /\ module_data.extra_source_filepaths = <<GenPath, HdrPath>>
    /\ Len(_load_checksum_trailer(module_data).deps.v) = 5
    /\ fs[HdrPath] # fs[GenPath]

\* the same files, in another order
Reordered(l1, l2) ==
    /\ l1 # l2
    /\ Len(l1) = Len(l2)
    /\ {l1[i] : i \in 1..Len(l1)} = {l2[i] : i \in 1..Len(l2)}

\* the digest _calc_cur_checksum returns for each list, under the key of now
Digests ==
    [file_lst \in FileLists |->
        _calc_cur_checksum(PyStrList(file_lst), module_data).digest]

\* what the files of a list hold, in the order of the list
ContentsInOrder(file_lst) == [i \in 1..Len(file_lst) |-> fs[file_lst[i]].data]

\* any two orders of the same files have different digests in d
OrdersDiffer(d) ==
    \A l1 \in FileLists : \A l2 \in FileLists :
        Reordered(l1, l2) => d[l1] # d[l2]

\* C19 as claimed: for one environment key, two lists of the same files in
\* different orders have different digests, whatever the files hold.
C19_OrderChangesDigest == OrdersDiffer(Digests)

\* two orders of the same files have different digests in d exactly when they
\* put other contents at some position
OrdersDifferByContent(d) ==
    \A l1 \in FileLists : \A l2 \in FileLists :
        Reordered(l1, l2)
            => ((d[l1] # d[l2]) <=> (ContentsInOrder(l1) # ContentsInOrder(l2)))

\* C19, amended: for one environment key, two lists of the same files in
\* different orders have different digests exactly when the orders differ in
\* the content at some position; files that hold the same bytes can change
\* places without a change of the digest, since no path is hashed.
C19_OrderOfContentsChangesDigest == OrdersDifferByContent(Digests)

\* the digest of /d/h, /d/g was computed while the two files differ, and it is
\* not the digest of /d/g, /d/h
C19_Witness ==
    /\ last.op = "_calc_cur_checksum" /\ last.exc = ""
    /\ fs[HdrPath].data # fs[GenPath].data
    /\ last.ret = PyStr(Digests[<<HdrPath, GenPath>>])
    /\ last.ret # PyStr(Digests[<<GenPath, HdrPath>>])

\* ------------------------------------------------------------------------
\* The bytes the hash is fed for the files, as an encoding of what the files
\* hold (SpecStream).

\* contents that run into each other when they are only concatenated, or only
\* separated by the tag: A, B, AB and A, tag, B
StreamContents ==
    {<<>>, <<65>>, <<66>>, <<65, 66>>, <<65>> \o _TAG \o <<66>>}

\* the lists of FileLists, the lists of one file and the empty list
StreamLists == FileLists \cup {<<>>, <<SrcPath>>, <<HdrPath>>, <<GenPath>>}

InitStream ==
    /\ fs \in {[p \in OrderPaths \cup {ExtPath} |->
                   IF p = SrcPath THEN File(s)
                   ELSE IF p = HdrPath THEN File(h)
                   ELSE IF p = GenPath THEN File(g) ELSE Missing] :
               s \in StreamContents, h \in StreamContents, g \in StreamContents}
    /\ environ = Environ
    /\ module_data = ModuleData(<<>>, <<>>)
    /\ large_offsets = TRUE
    /\ last = NoCall
    /\ stamp = NoStamp
    /\ saved = <<>>
    /\ intact = TRUE
    /\ procs = <<>>
    /\ refused = FALSE
    /\ prev = NoCall
    /\ NoMagics

NextStream == \E file_lst \in StreamLists : CalcCurChecksum(file_lst)

SpecStream == InitStream /\ [][NextStream]_vars

\* the bytes h.update was given, for each list: the key, then the files
Streams ==
    [file_lst \in StreamLists |->
        update_files(repr_tuple(checksum_key(module_data)),
                     py_iter(PyStrList(file_lst)).items, 1).h]

\* two lists whose files hold, in order, other sequences of contents have
\* other streams in d
Injective(d) ==
    \A l1 \in StreamLists : \A l2 \in StreamLists :
        ContentsInOrder(l1) # ContentsInOrder(l2) => d[l1] # d[l2]

\* C22: the bytes _calc_cur_checksum feeds to the hash for the file list
\* (for each file its length as 8 big-endian bytes, its content, the tag)
\* encode the sequence of the files' contents injectively: under one
\* environment key, two lists of files whose sequences of contents differ
\* (such as A, B and AB) are never fed as the same bytes.
C22_StreamIsInjective == Injective(Streams)

\* the digest of the files A and B was computed while a third file holds AB,
\* and another while it holds A, the tag and B
C22_Witness ==
    /\ last = Called("_calc_cur_checksum", "",
                     PyStr(hexdigest(Streams[<<HdrPath, GenPath>>])))
    /\ fs[HdrPath].data = <<65>> /\ fs[GenPath].data = <<66>>
    /\ fs[SrcPath].data = <<65>> \o _TAG \o <<66>>
    /\ Streams[<<SrcPath>>] # Streams[<<HdrPath, GenPath>>]

\* ------------------------------------------------------------------------
\* Two IPython sessions share the cache tree and the db of the profile: each
\* runs %%cppimport cells and %cppimport_config --clean-cache (SpecMagic).
\* A path under get_ipython_cache_dir()/cppimport is the sequence of its
\* names: <<cdir>>, <<cdir, checksum>>, <<cdir, checksum, cpp_module>>.

Sessions == {"s1", "s2"}

\* what "%08x" % random.getrandbits(32) may give
CacheNames == {"a", "b", "c"}

\* a session: where it is, its _lib_dir (<<>> before _cache_open), the cdir
\* and the caller of _cache_init, what rmtree has listed and not yet removed,
\* how _cache_check ended and the exception that ended the last cell
Magic(pc, lib_dir, cdir, caller, listed, checked, exc) ==
    [pc |-> pc, _lib_dir |-> lib_dir, cdir |-> cdir, caller |-> caller,
     listed |-> listed, checked |-> checked, exc |-> exc]

InitMagic ==
    /\ fs = [p \in DepPaths \cup {ExtPath} |-> Missing]
    /\ environ = Environ
    /\ module_data = ModuleData(<<>>, <<>>)
    /\ large_offsets = TRUE
    /\ last = NoCall
    /\ stamp = NoStamp
    /\ saved = <<>>
    /\ intact = TRUE
    /\ procs = <<>>
    /\ refused = FALSE
    /\ prev = NoCall
    /\ tree = {}
    /\ db = <<>>
    /\ magics = [s \in Sessions |-> Magic("__init__", <<>>, "", "", {}, "", "")]

\* session s goes on as m
Moves(s, m) ==
    /\ magics' = [magics EXCEPT ![s] = m]
    /\ UNCHANGED <<fs, environ, module_data, large_offsets, last, stamp, saved,
                   intact, procs, refused, prev>>

\* another session is removing the tree: a makedirs may find the parent gone
TreeGoing(s) == \E o \in Sessions \ {s} : magics[o].pc = "rmtree"

\* __init__: _cache_open takes the directory of the db when it exists
CacheOpen(s) ==
    /\ magics[s].pc = "__init__"
    /\ IF db # <<>> /\ db \in tree
       THEN Moves(s, [magics[s] EXCEPT !.pc = "idle", !._lib_dir = db])
       ELSE Moves(s, [magics[s] EXCEPT !.pc = "_cache_init", !.caller = "idle"])
    /\ UNCHANGED <<tree, db>>

\* _cache_init: os.makedirs(cdir) of a random name that does not exist; a
\* name that exists, or a parent that goes, is tried again
CacheInitMakedirs(s, c) ==
    /\ magics[s].pc = "_cache_init"
    /\ <<c>> \notin tree
    /\ tree' = tree \cup {<<c>>}
    /\ Moves(s, [magics[s] EXCEPT !.pc = "db", !.cdir = c])
    /\ UNCHANGED db

\* _cache_init: self.shell.db["cppimport_cache"] = cdir; self._lib_dir = cdir
CacheInitStore(s) ==
    /\ magics[s].pc = "db"
    /\ db' = <<magics[s].cdir>>
    /\ Moves(s, [magics[s] EXCEPT !.pc = magics[s].caller,
                                  !._lib_dir = <<magics[s].cdir>>,
                                  !.cdir = "", !.caller = ""])
    /\ UNCHANGED tree

\* a _cache_check that opens the cache anew: it takes the directory of the db
CacheCheckReopening(s) ==
    /\ magics[s].pc = "makedirs"
    /\ IF db # <<>> /\ db \in tree
       THEN Moves(s, [magics[s] EXCEPT !.pc = "mkdir", !._lib_dir = db,
                                       !.checked = "recreated"])
       ELSE Moves(s, [magics[s] EXCEPT !.pc = "_cache_init", !.caller = "mkdir",
                                       !.checked = "_cache_init"])
    /\ UNCHANGED <<tree, db>>

\* %%cppimport: _cache_check, os.path.isdir(self._lib_dir)
CacheCheck(s) ==
    /\ magics[s].pc = "idle"
    /\ IF magics[s]._lib_dir \in tree
       THEN Moves(s, [magics[s] EXCEPT !.pc = "mkdir", !.checked = "isdir",
                                       !.exc = ""])
       ELSE Moves(s, [magics[s] EXCEPT !.pc = "makedirs", !.checked = "",
                                       !.exc = ""])
    /\ UNCHANGED <<tree, db>>

\* _cache_check: os.makedirs(self._lib_dir), and _cache_init when it raises
CacheCheckMakedirs(s) ==
    /\ magics[s].pc = "makedirs"
    /\ \/ /\ magics[s]._lib_dir \notin tree
          /\ tree' = tree \cup {magics[s]._lib_dir}
          /\ Moves(s, [magics[s] EXCEPT !.pc = "mkdir", !.checked = "recreated"])
       \/ /\ magics[s]._lib_dir \in tree \/ TreeGoing(s)
          /\ tree' = tree
          /\ Moves(s, [magics[s] EXCEPT !.pc = "_cache_init", !.caller = "mkdir",
                                        !.checked = "_cache_init"])
    /\ UNCHANGED db

\* %%cppimport: dir = os.path.join(self._lib_dir, checksum); os.mkdir(dir)
\* with FileExistsError suppressed
CellMkdir(s) ==
    /\ magics[s].pc = "mkdir"
    /\ IF magics[s]._lib_dir \notin tree
       THEN /\ tree' = tree
            /\ Moves(s, [magics[s] EXCEPT !.pc = "idle",
                                          !.exc = "FileNotFoundError"])
       ELSE /\ tree' = tree \cup {magics[s]._lib_dir \o <<"h">>}
            /\ Moves(s, [magics[s] EXCEPT !.pc = "open"])
    /\ UNCHANGED db

\* %%cppimport: with open(filepath, "w") as f: f.write(code)
CellOpen(s) ==
    /\ magics[s].pc = "open"
    /\ IF magics[s]._lib_dir \o <<"h">> \notin tree
       THEN /\ tree' = tree
            /\ Moves(s, [magics[s] EXCEPT !.pc = "idle",
                                          !.exc = "FileNotFoundError"])
       ELSE /\ tree' = tree \cup {magics[s]._lib_dir \o <<"h", "m.cpp">>}
            /\ Moves(s, [magics[s] EXCEPT !.pc = "idle"])
    /\ UNCHANGED db

\* %cppimport_config --clean-cache: _cache_clean, shutil.rmtree lists the tree
CacheClean(s) ==
    /\ magics[s].pc = "idle"
    /\ IF tree = {}
       THEN Moves(s, [magics[s] EXCEPT !.pc = "_cache_init", !.caller = "idle"])
       ELSE Moves(s, [magics[s] EXCEPT !.pc = "rmtree",
                                       !.listed = {p[1] : p \in tree}])
    /\ UNCHANGED <<tree, db>>

\* shutil.rmtree removes one listed directory with all it holds; _cache_init
\* follows the last one
Rmtree(s, c) ==
    /\ magics[s].pc = "rmtree"
    /\ c \in magics[s].listed
    /\ tree' = {p \in tree : p[1] # c}
    /\ IF magics[s].listed = {c}
       THEN Moves(s, [magics[s] EXCEPT !.pc = "_cache_init", !.caller = "idle",
                                       !.listed = {}])
       ELSE Moves(s, [magics[s] EXCEPT !.listed = magics[s].listed \ {c}])
    /\ UNCHANGED db

NextMagic ==
    \E s \in Sessions :
        \/ CacheOpen(s)
        \/ \E c \in CacheNames : CacheInitMakedirs(s, c)
        \/ CacheInitStore(s)
        \/ CacheCheck(s)
        \/ CacheCheckMakedirs(s)
        \/ CellMkdir(s)
        \/ CellOpen(s)
        \/ CacheClean(s)
        \/ \E c \in CacheNames : Rmtree(s, c)

SpecMagic == InitMagic /\ [][NextMagic]_vars

\* C23: when a parallel session has replaced the shared cache (its
\* _cache_clean removed the tree and its _cache_init stored a new directory
\* in the db), _cache_check of this session recreates its own _lib_dir and
\* keeps it: every _cache_check that ends without _cache_init leaves _lib_dir
\* and the db entry as they were, with _lib_dir existing; and it goes to
\* _cache_init only when os.makedirs of the old directory raised, because the
\* directory exists again or the tree is being removed.
C23_KeepsOwnLibDir ==
    [][\A s \in Sessions :
           /\ (magics[s].pc \in {"idle", "makedirs"} /\ magics'[s].pc = "mkdir")
                 => /\ magics'[s]._lib_dir = magics[s]._lib_dir
                    /\ db' = db
                    /\ magics'[s]._lib_dir \in tree'
           /\ (magics[s].pc = "makedirs" /\ magics'[s].pc = "_cache_init")
                 => (magics[s]._lib_dir \in tree \/ TreeGoing(s))]_vars

\* a session has recreated its directory while the db names the directory of
\* the other session, which has cleaned the cache and is idle again
C23_Witness ==
    \E s \in Sessions : \E o \in Sessions \ {s} :
        /\ magics[s].pc = "mkdir" /\ magics[s].checked = "recreated"
        /\ magics[s]._lib_dir \in tree
        /\ db # magics[s]._lib_dir /\ db \in tree
        /\ magics[o].pc = "idle" /\ magics[o]._lib_dir = db

\* C24 as claimed: once _cache_check has returned, _lib_dir exists when the
\* cell creates the per-checksum directory and writes the source into it, in
\* every interleaving with a session that cleans the cache; no cell ends with
\* FileNotFoundError.
C24_CacheDirNeverMissing ==
    \A s \in Sessions :
        /\ magics[s].pc \in {"mkdir", "open"} => magics[s]._lib_dir \in tree
        /\ magics[s].exc # "FileNotFoundError"

====
